---- MODULE Spec2Model ----
(***************************************************************************)
(* Verification model of elrond-sdk-erdgo:                                 *)
(*   - txDataBuilder               (package elrond, builder of tx data)    *)
(*   - NewHeaderCheckHandler       (package headerCheck, verifier wiring)  *)
(*   - HeaderVerifier orchestrator (package headerCheck)                   *)
(*   - hitbtc.FetchPrice           (package fetchers)                      *)
(* Every subsystem has its own specification over the shared variables;    *)
(* the variables of the other subsystems stay at their initial value.      *)
(***************************************************************************)
EXTENDS Integers, Sequences, FiniteSets, TLC

VARIABLES
    \* txDataBuilder fields (log is kept as "is it nil")
    address, function, callerAddr, args, err,
    \* the last builder call and what it returned
    lastOp, out,
    \* NewHeaderCheckHandler: position, proxy, locals, calls made, return value
    pc, proxy, callerPolicy, locals, calls, ret,
    \* HeaderVerifier: one verification call
    stage, entered, header, committee, result,
    \* hitbtc.FetchPrice: what Get returned, the decoded response, the returned pair
    got, hpr, fetched

builderVars == <<address, function, callerAddr, args, err, lastOp, out>>
handlerVars == <<pc, proxy, callerPolicy, locals, calls, ret>>
verifierVars == <<stage, entered, header, committee, result>>
fetcherVars == <<got, hpr, fetched>>
vars == <<builderVars, handlerVars, verifierVars, fetcherVars>>

\* the other subsystems are not touched
BuilderOnly == UNCHANGED <<handlerVars, verifierVars, fetcherVars>>
HandlerOnly == UNCHANGED <<builderVars, verifierVars, fetcherVars>>
VerifierOnly == UNCHANGED <<builderVars, handlerVars, fetcherVars>>
FetcherOnly == UNCHANGED <<builderVars, handlerVars, verifierVars>>

(***************************************************************************)
(* Bounds of the model.                                                    *)
(***************************************************************************)
MaxArgs == 2
MaxHexLen == 2
MaxPriceLen == 3

\* all sequences over S of length at most n
RECURSIVE SeqsUpTo(_, _)
SeqsUpTo(S, n) ==
    IF n = 0 THEN {<<>>}
    ELSE LET shorter == SeqsUpTo(S, n - 1)
         IN  shorter \cup {Append(s, x) : s \in {t \in shorter : Len(t) = n - 1}, x \in S}

(***************************************************************************)
(* txDataBuilder                                                           *)
(***************************************************************************)
dataSeparator == "@"

\* error values: a kind and, for wrapped errors that print an input, the input
Error(kind, detail) == [kind |-> kind, detail |-> detail]
NoErr == Error("nil", <<>>)
ErrNilLogger == Error("ErrNilLogger", <<>>)
ErrNilAddress == Error("ErrNilAddress in builder.checkAddress", <<>>)
ErrInvalidAddress == Error("ErrInvalidAddress in builder.checkAddress", <<>>)
ErrNilValue == Error("ErrNilValue in builder.ArgBigInt", <<>>)
ErrInvalidValue == Error("ErrInvalidValue in builder.ArgBytes", <<>>)
ErrHex(hexed) == Error("hex error in builder.ArgHexString for string", hexed)

\* strings are sequences of one-character strings
HexDigits == <<"0", "1", "2", "3", "4", "5", "6", "7", "8", "9", "a", "b", "c", "d", "e", "f">>
UpperHexDigits == {"A", "B", "C", "D", "E", "F"}
IsHexChar(c) == (\E i \in 1..16 : HexDigits[i] = c) \/ c \in UpperHexDigits

\* hex.DecodeString fails on an odd length or on a character that is no hex digit
HexDecodeFails(hexed) ==
    \/ Len(hexed) % 2 = 1
    \/ \E i \in 1..Len(hexed) : ~IsHexChar(hexed[i])

\* hex.EncodeToString: two lower-case digits per byte
RECURSIVE EncodeToString(_)
EncodeToString(bytes) ==
    IF bytes = <<>> THEN <<>>
    ELSE <<HexDigits[(Head(bytes) \div 16) + 1], HexDigits[(Head(bytes) % 16) + 1]>>
         \o EncodeToString(Tail(bytes))

\* big.Int.Bytes: big-endian bytes of the absolute value, empty for zero
Abs(n) == IF n < 0 THEN -n ELSE n
RECURSIVE NatBytes(_)
NatBytes(n) == IF n = 0 THEN <<>> ELSE Append(NatBytes(n \div 256), n % 256)
BigIntBytes(value) == NatBytes(Abs(value))

\* an AddressHandler is nil or carries its bytes
NilAddress == [isNil |-> TRUE, bytes |-> <<>>]
Addr(bytes) == [isNil |-> FALSE, bytes |-> bytes]
\* AddressAsBech32String: the human-readable prefix and an injective encoding
\* of the bytes (checksum left out)
AddressAsBech32String(a) == <<"e", "r", "d", "1">> \o EncodeToString(a.bytes)

\* a *big.Int is nil or carries its value
NilBigInt == [isNil |-> TRUE, v |-> 0]
Big(v) == [isNil |-> FALSE, v |-> v]

\* inputs of the builder operations
HexAlphabet == {"a", "g"}
HexInputs == SeqsUpTo(HexAlphabet, MaxHexLen)
AddressInputs == {NilAddress, Addr(<<>>), Addr(<<1>>)}
BigIntInputs == {NilBigInt, Big(0), Big(1), Big(-1), Big(256)}
Int64Inputs == {0, -1, 256}
BytesInputs == {<<>>, <<0>>, <<171>>}
FunctionInputs == {<<>>, <<"f">>}

Op(name, recorded) == [name |-> name, recorded |-> recorded]
\* return values: the builder itself, or a (value, error) pair
Builder == [kind |-> "builder", isNil |-> FALSE, data |-> <<>>, req |-> <<>>, err |-> NoErr]
Returned(kind, isNil, data, req, e) ==
    [kind |-> kind, isNil |-> isNil, data |-> data, req |-> req, err |-> e]

checkAddress(a) ==
    IF a.isNil THEN ErrNilAddress
    ELSE IF Len(a.bytes) = 0 THEN ErrInvalidAddress
    ELSE NoErr

\* builder.addBytes: an empty slice is replaced by the single byte 0
addBytes(bytes) ==
    Append(args, EncodeToString(IF Len(bytes) = 0 THEN <<0>> ELSE bytes))

\* NewTxDataBuilder(log): the fields of a fresh builder
NewTxDataBuilder(logIsNil) ==
    /\ address = <<>>
    /\ function = <<>>
    /\ callerAddr = <<>>
    /\ args = <<>>
    /\ err = (IF logIsNil THEN ErrNilLogger ELSE NoErr)
    /\ lastOp = Op("NewTxDataBuilder", logIsNil)
    /\ out = Builder

Function(f) ==
    /\ function' = f
    /\ lastOp' = Op("Function", FALSE)
    /\ out' = Builder
    /\ UNCHANGED <<address, callerAddr, args, err>>

CallerAddress(a) ==
    /\ IF checkAddress(a) # NoErr
       THEN /\ err' = checkAddress(a)
            /\ UNCHANGED callerAddr
       ELSE /\ callerAddr' = AddressAsBech32String(a)
            /\ UNCHANGED err
    /\ lastOp' = Op("CallerAddress", checkAddress(a) # NoErr)
    /\ out' = Builder
    /\ UNCHANGED <<address, function, args>>

Address(a) ==
    /\ IF checkAddress(a) # NoErr
       THEN /\ err' = checkAddress(a)
            /\ UNCHANGED address
       ELSE /\ address' = AddressAsBech32String(a)
            /\ UNCHANGED err
    /\ lastOp' = Op("Address", checkAddress(a) # NoErr)
    /\ out' = Builder
    /\ UNCHANGED <<callerAddr, function, args>>

\* a successful call clears the recorded error
ArgHexString_ClearsErr(hexed) ==
    /\ HexDecodeFails(hexed) \/ Len(args) < MaxArgs
    /\ IF HexDecodeFails(hexed)
       THEN /\ err' = ErrHex(hexed)
            /\ UNCHANGED args
       ELSE /\ args' = Append(args, hexed)
            /\ err' = NoErr
    /\ lastOp' = Op("ArgHexString", HexDecodeFails(hexed))
    /\ out' = Builder
    /\ UNCHANGED <<address, function, callerAddr>>

ArgHexString(hexed) ==
    /\ HexDecodeFails(hexed) \/ Len(args) < MaxArgs
    /\ IF HexDecodeFails(hexed)
       THEN /\ err' = ErrHex(hexed)
            /\ UNCHANGED args
       ELSE /\ args' = Append(args, hexed)
            /\ UNCHANGED err
    /\ lastOp' = Op("ArgHexString", HexDecodeFails(hexed))
    /\ out' = Builder
    /\ UNCHANGED <<address, function, callerAddr>>

ArgAddress(a) ==
    /\ checkAddress(a) # NoErr \/ Len(args) < MaxArgs
    /\ IF checkAddress(a) # NoErr
       THEN /\ err' = checkAddress(a)
            /\ UNCHANGED args
       ELSE /\ args' = addBytes(a.bytes)
            /\ UNCHANGED err
    /\ lastOp' = Op("ArgAddress", checkAddress(a) # NoErr)
    /\ out' = Builder
    /\ UNCHANGED <<address, function, callerAddr>>

ArgBigInt(value) ==
    /\ value.isNil \/ Len(args) < MaxArgs
    /\ IF value.isNil
       THEN /\ err' = ErrNilValue
            /\ UNCHANGED args
       ELSE /\ args' = addBytes(BigIntBytes(value.v))
            /\ UNCHANGED err
    /\ lastOp' = Op("ArgBigInt", value.isNil)
    /\ out' = Builder
    /\ UNCHANGED <<address, function, callerAddr>>

ArgInt64(value) ==
    /\ Len(args) < MaxArgs
    /\ args' = addBytes(BigIntBytes(value))
    /\ lastOp' = Op("ArgInt64", FALSE)
    /\ out' = Builder
    /\ UNCHANGED <<address, function, callerAddr, err>>

\* the empty slice records ErrInvalidValue and the code goes on to the append
ArgBytes(bytes) ==
    /\ Len(args) < MaxArgs
    /\ IF Len(bytes) = 0 THEN err' = ErrInvalidValue ELSE UNCHANGED err
    /\ args' = Append(args, EncodeToString(bytes))
    /\ lastOp' = Op("ArgBytes", Len(bytes) = 0)
    /\ out' = Builder
    /\ UNCHANGED <<address, function, callerAddr>>

\* strings.Join(parts, dataSeparator)
RECURSIVE Join(_)
Join(parts) ==
    IF Len(parts) = 0 THEN <<>>
    ELSE IF Len(parts) = 1 THEN parts[1]
    ELSE parts[1] \o <<dataSeparator>> \o Join(Tail(parts))

\* the pair ToDataString returns in the current state
DataString ==
    IF err # NoErr THEN Returned("string", FALSE, <<>>, <<>>, err)
    ELSE Returned("string", FALSE, Join(<<function>> \o args), <<>>, NoErr)

ToDataString ==
    /\ out' = DataString
    /\ lastOp' = Op("ToDataString", FALSE)
    /\ UNCHANGED <<address, function, callerAddr, args, err>>
    /\ BuilderOnly

ToDataBytes ==
    /\ out' = IF DataString.err # NoErr
              THEN Returned("bytes", TRUE, <<>>, <<>>, DataString.err)
              ELSE Returned("bytes", FALSE, DataString.data, <<>>, DataString.err)
    /\ lastOp' = Op("ToDataBytes", FALSE)
    /\ UNCHANGED <<address, function, callerAddr, args, err>>
    /\ BuilderOnly

ToVmValueRequest ==
    /\ out' = IF err # NoErr
              THEN Returned("request", TRUE, <<>>, <<>>, err)
              ELSE Returned("request", FALSE, <<>>,
                            <<address, function, callerAddr, args>>, NoErr)
    /\ lastOp' = Op("ToVmValueRequest", FALSE)
    /\ UNCHANGED <<address, function, callerAddr, args, err>>
    /\ BuilderOnly

(***************************************************************************)
(* NewHeaderCheckHandler                                                   *)
(***************************************************************************)
ErrNilProxy == Error("ErrNilProxy", <<>>)

\* what the proxy can answer, and how a fetch or a factory can fail
NetworkConfigs == {<<"net1">>, <<"net2">>}
RatingsConfigs == {<<"rat1">>, <<"rat2">>}
EnableEpochsConfigs == {<<"ee1">>, <<"ee2">>}
FetchFailures == {"transport", "timeout"}

\* the order of the calls NewHeaderCheckHandler makes
CallOrder ==
    <<"GetNetworkConfig", "GetRatingsConfig", "GetEnableEpochsConfig",
      "CreateCoreComponents", "CreateCryptoComponents", "CreateNodesCoordinator",
      "NewHeaderSigVerifier", "NewRawHeaderHandler", "NewHeaderVerifier">>

\* a call that was made, with the error it returned (NoErr when it succeeded)
Call(name, e) == [name |-> name, err |-> e]
Ok(name) == Call(name, NoErr)
Failed(name, why) == Call(name, Error(name, <<why>>))

\* the fallback validator NewHeaderCheckHandler wires into the signature verifier
FallbackHeaderValidator == <<"testscommon.FallBackHeaderValidatorStub">>

NoSigArgs ==
    [Marshalizer |-> <<>>, Hasher |-> <<>>, NodesCoordinator |-> <<>>,
     MultiSigVerifier |-> <<>>, SingleSigVerifier |-> <<>>, KeyGen |-> <<>>,
     FallbackHeaderValidator |-> <<>>]
NilVerifier ==
    [isNil |-> TRUE, HeaderHandler |-> <<>>, HeaderSigVerifier |-> NoSigArgs,
     NodesCoordinator |-> <<>>]
NoLocals ==
    [networkConfig |-> <<>>, ratingsConfig |-> <<>>, enableEpochsConfig |-> <<>>,
     coreComp |-> <<>>, cryptoComp |-> <<>>, nodesCoordinator |-> <<>>,
     headerSigVerifier |-> NoSigArgs, rawHeaderHandler |-> <<>>]
NotReturned == [verifier |-> NilVerifier, err |-> NoErr]

\* return nil, err
ReturnErr(e) ==
    /\ pc' = "returned"
    /\ ret' = [verifier |-> NilVerifier, err |-> e]

\* line 13: the nil check on the proxy
CheckProxy ==
    /\ pc = "start"
    /\ IF proxy.isNil
       THEN ReturnErr(ErrNilProxy)
       ELSE pc' = "GetNetworkConfig" /\ UNCHANGED ret
    /\ UNCHANGED <<proxy, callerPolicy, locals, calls>>
    /\ HandlerOnly

\* a failed call is made once more instead of returning its error
Step_Retry(name, next, failed, why, local, value) ==
    /\ pc = name
    /\ IF failed
       THEN /\ calls' = Append(calls, Failed(name, why))
            /\ Len(calls) < Len(CallOrder)
            /\ UNCHANGED <<pc, ret, locals>>
       ELSE /\ calls' = Append(calls, Ok(name))
            /\ locals' = [locals EXCEPT ![local] = value]
            /\ pc' = next
            /\ UNCHANGED ret
    /\ UNCHANGED <<proxy, callerPolicy>>
    /\ HandlerOnly

\* one call of the function body: it is logged, and either its value is bound
\* to a local and the function moves on, or its error is returned
Step(name, next, failed, why, local, value) ==
    /\ pc = name
    /\ IF failed
       THEN /\ calls' = Append(calls, Failed(name, why))
            /\ ReturnErr(Failed(name, why).err)
            /\ UNCHANGED locals
       ELSE /\ calls' = Append(calls, Ok(name))
            /\ locals' = [locals EXCEPT ![local] = value]
            /\ pc' = next
            /\ UNCHANGED ret
    /\ UNCHANGED <<proxy, callerPolicy>>
    /\ HandlerOnly

GetNetworkConfig ==
    \E failed \in BOOLEAN, why \in FetchFailures, cfg \in NetworkConfigs :
        Step("GetNetworkConfig", "GetRatingsConfig", failed, why, "networkConfig", cfg)

GetRatingsConfig ==
    \E failed \in BOOLEAN, why \in FetchFailures, cfg \in RatingsConfigs :
        Step("GetRatingsConfig", "GetEnableEpochsConfig", failed, why, "ratingsConfig", cfg)

GetEnableEpochsConfig ==
    \E failed \in BOOLEAN, why \in FetchFailures, cfg \in EnableEpochsConfigs :
        Step("GetEnableEpochsConfig", "CreateCoreComponents", failed, why,
             "enableEpochsConfig", cfg)

CreateCoreComponents ==
    \E failed \in BOOLEAN :
        Step("CreateCoreComponents", "CreateCryptoComponents", failed, "invalid config",
             "coreComp", <<"coreComp">> \o locals.ratingsConfig \o locals.networkConfig)

CreateCryptoComponents ==
    \E failed \in BOOLEAN :
        Step("CreateCryptoComponents", "CreateNodesCoordinator", failed, "crypto",
             "cryptoComp", <<"cryptoComp">>)

CreateNodesCoordinator ==
    \E failed \in BOOLEAN :
        Step("CreateNodesCoordinator", "NewHeaderSigVerifier", failed, "invalid config",
             "nodesCoordinator",
             <<"nodesCoordinator">> \o locals.coreComp \o locals.networkConfig
                 \o locals.enableEpochsConfig)

\* the constructor takes the fallback validator from its caller
headerSigArgs_FromCaller ==
    [Marshalizer |-> locals.coreComp, Hasher |-> locals.coreComp,
     NodesCoordinator |-> locals.nodesCoordinator,
     MultiSigVerifier |-> locals.cryptoComp, SingleSigVerifier |-> locals.cryptoComp,
     KeyGen |-> locals.cryptoComp,
     FallbackHeaderValidator |-> callerPolicy]

\* lines 52-60
headerSigArgs ==
    [Marshalizer |-> locals.coreComp, Hasher |-> locals.coreComp,
     NodesCoordinator |-> locals.nodesCoordinator,
     MultiSigVerifier |-> locals.cryptoComp, SingleSigVerifier |-> locals.cryptoComp,
     KeyGen |-> locals.cryptoComp,
     FallbackHeaderValidator |-> FallbackHeaderValidator]

NewHeaderSigVerifier ==
    \E failed \in BOOLEAN :
        Step("NewHeaderSigVerifier", "NewRawHeaderHandler", failed, "nil argument",
             "headerSigVerifier", headerSigArgs)

NewRawHeaderHandler ==
    \E failed \in BOOLEAN :
        Step("NewRawHeaderHandler", "NewHeaderVerifier", failed, "nil argument",
             "rawHeaderHandler", <<"rawHeaderHandler">> \o locals.coreComp)

\* lines 71-81: the last constructor and the return of the verifier
NewHeaderVerifier ==
    /\ pc = "NewHeaderVerifier"
    /\ \E failed \in BOOLEAN :
          IF failed
          THEN /\ calls' = Append(calls, Failed("NewHeaderVerifier", "nil argument"))
               /\ ReturnErr(Failed("NewHeaderVerifier", "nil argument").err)
          ELSE /\ calls' = Append(calls, Ok("NewHeaderVerifier"))
               /\ pc' = "returned"
               /\ ret' = [verifier |->
                             [isNil |-> FALSE,
                              HeaderHandler |-> locals.rawHeaderHandler,
                              HeaderSigVerifier |-> locals.headerSigVerifier,
                              NodesCoordinator |-> locals.nodesCoordinator],
                          err |-> NoErr]
    /\ UNCHANGED <<proxy, callerPolicy, locals>>
    /\ HandlerOnly

(***************************************************************************)
(* HeaderVerifier: the orchestrator of one verification call               *)
(***************************************************************************)
Epochs == {0, 1}
Shards == {0, 1}
Rounds == {0, 1}
Seeds == {0, 1}
Headers == [epoch : Epochs, shard : Shards, round : Rounds, seed : Seeds]
NoHeader == [epoch |-> -1, shard |-> -1, round |-> -1, seed |-> -1]
NoCommittee == NoHeader

FetchErrors == {"HeaderNotFoundError", "DeserializationError"}
SelectErrors == {"UnknownEpochError", "InsufficientValidatorsError"}
VerifyErrors ==
    {"InsufficientSignaturesError", "FallbackRejectedError",
     "InvalidAggregatedSignatureError", "InvalidLeaderSignatureError"}

NoResult == [verdict |-> "none", err |-> "nil"]
Valid == [verdict |-> "valid", err |-> "nil"]
Invalid(kind) == [verdict |-> "invalid", err |-> kind]

\* a component error: straight to Rejected with the component's error kind
Reject(kind) ==
    /\ stage' = "Rejected"
    /\ entered' = Append(entered, "Rejected")
    /\ result' = Invalid(kind)

Enter(s) ==
    /\ stage' = s
    /\ entered' = Append(entered, s)

VerifyHeader ==
    /\ stage = "Idle"
    /\ Enter("Fetching")
    /\ UNCHANGED <<header, committee, result>>
    /\ VerifierOnly

\* a failed fetch is tried again
Fetching_Retry(failed, kind, h) ==
    /\ stage = "Fetching"
    /\ IF failed
       THEN Len(entered) < 3 /\ Enter("Fetching") /\ UNCHANGED <<header, result>>
       ELSE Enter("SelectingCommittee") /\ header' = h /\ UNCHANGED result
    /\ UNCHANGED committee

\* Fetching: the HeaderFetcher answers with a header or with an error
Fetching(failed, kind, h) ==
    /\ stage = "Fetching"
    /\ IF failed
       THEN Reject(kind) /\ UNCHANGED header
       ELSE Enter("SelectingCommittee") /\ header' = h /\ UNCHANGED result
    /\ UNCHANGED committee

\* SelectingCommittee: registry and selector, keyed by the header's own
\* epoch, shard, round and seed
SelectingCommittee(failed, kind) ==
    /\ stage = "SelectingCommittee"
    /\ IF failed
       THEN Reject(kind) /\ UNCHANGED committee
       ELSE Enter("Verifying") /\ committee' = header /\ UNCHANGED result
    /\ UNCHANGED header

\* Verifying: the HeaderSignatureVerifier answers
Verifying(failed, kind) ==
    /\ stage = "Verifying"
    /\ IF failed
       THEN Reject(kind)
       ELSE Enter("Verified") /\ result' = Valid
    /\ UNCHANGED <<header, committee>>

(***************************************************************************)
(* hitbtc.FetchPrice                                                       *)
(***************************************************************************)
errInvalidResponseData == Error("errInvalidResponseData", <<>>)
ErrSyntax(str) == Error("strconv.NumError", str)
GetErrors == {Error("expected error", <<>>), Error("context canceled", <<>>)}

Digits == <<"0", "1", "2">>
PriceAlphabet == {"0", "1", "2", "-", "x"}
PriceStrings == SeqsUpTo(PriceAlphabet, MaxPriceLen)
NotFetched == [called |-> FALSE, price |-> 0, err |-> NoErr]
Price(price, e) == [called |-> TRUE, price |-> price, err |-> e]

DigitValue(c) == (CHOOSE i \in 1..Len(Digits) : Digits[i] = c) - 1
IsDigit(c) == \E i \in 1..Len(Digits) : Digits[i] = c
RECURSIVE DecimalValue(_)
DecimalValue(str) ==
    IF str = <<>> THEN 0
    ELSE 10 * DecimalValue(SubSeq(str, 1, Len(str) - 1)) + DigitValue(str[Len(str)])

\* strconv.ParseFloat on the strings of PriceStrings: an optional sign and at
\* least one digit
Unsigned(str) == IF str # <<>> /\ Head(str) = "-" THEN Tail(str) ELSE str
IsNumber(str) ==
    /\ Unsigned(str) # <<>>
    /\ \A i \in 1..Len(Unsigned(str)) : IsDigit(Unsigned(str)[i])
ParseFloat(str) ==
    IF Head(str) = "-" THEN -DecimalValue(Unsigned(str)) ELSE DecimalValue(str)

\* StrToPositiveFloat64: the parsed value when it is a positive number,
\* otherwise 0 and an error
StrToPositiveFloat64(str) ==
    IF ~IsNumber(str) THEN Price(0, ErrSyntax(str))
    ELSE IF ParseFloat(str) <= 0 THEN Price(0, errInvalidResponseData)
    ELSE Price(ParseFloat(str), NoErr)

\* getErr is what ResponseGetter.Get returns, price what it decoded into hpr
\* the empty check is left out and the empty string goes to the parser
FetchPrice_NoEmptyCheck(getErr, price) ==
    /\ got' = getErr
    /\ IF getErr # NoErr
       THEN /\ hpr' = <<>>
            /\ fetched' = Price(0, getErr)
       ELSE /\ hpr' = price
            /\ fetched' = StrToPositiveFloat64(price)

FetchPrice(getErr, price) ==
    /\ got' = getErr
    /\ IF getErr # NoErr
       THEN /\ hpr' = <<>>
            /\ fetched' = Price(0, getErr)
       ELSE /\ hpr' = price
            /\ fetched' = IF price = <<>>
                          THEN Price(0, errInvalidResponseData)
                          ELSE StrToPositiveFloat64(price)

(***************************************************************************)
(* Specifications                                                          *)
(***************************************************************************)
CallerPolicies == {<<>>, <<"caller.AcceptAll">>, <<"caller.RefuseAll">>}

BuilderIdle ==
    /\ address = <<>> /\ function = <<>> /\ callerAddr = <<>> /\ args = <<>>
    /\ err = NoErr /\ lastOp = Op("none", FALSE) /\ out = Builder
HandlerIdle ==
    /\ pc = "start" /\ proxy = [isNil |-> TRUE] /\ callerPolicy = <<>>
    /\ locals = NoLocals /\ calls = <<>> /\ ret = NotReturned
VerifierIdle ==
    /\ stage = "Idle" /\ entered = <<>> /\ header = NoHeader
    /\ committee = NoCommittee /\ result = NoResult
FetcherIdle ==
    /\ got = NoErr /\ hpr = <<>> /\ fetched = NotFetched

\* txDataBuilder
InitBuilder ==
    /\ \E logIsNil \in BOOLEAN : NewTxDataBuilder(logIsNil)
    /\ HandlerIdle /\ VerifierIdle /\ FetcherIdle

DoFunction == \E f \in FunctionInputs : Function(f) /\ BuilderOnly
DoCallerAddress == \E a \in AddressInputs : CallerAddress(a) /\ BuilderOnly
DoAddress == \E a \in AddressInputs : Address(a) /\ BuilderOnly
DoArgHexString == \E hexed \in HexInputs : ArgHexString(hexed) /\ BuilderOnly
DoArgAddress == \E a \in AddressInputs : ArgAddress(a) /\ BuilderOnly
DoArgBigInt == \E value \in BigIntInputs : ArgBigInt(value) /\ BuilderOnly
DoArgInt64 == \E value \in Int64Inputs : ArgInt64(value) /\ BuilderOnly
DoArgBytes == \E bytes \in BytesInputs : ArgBytes(bytes) /\ BuilderOnly

NextBuilder ==
    \/ DoFunction
    \/ DoCallerAddress
    \/ DoAddress
    \/ DoArgHexString
    \/ DoArgAddress
    \/ DoArgBigInt
    \/ DoArgInt64
    \/ DoArgBytes
    \/ ToDataString
    \/ ToDataBytes
    \/ ToVmValueRequest

SpecBuilder == InitBuilder /\ [][NextBuilder]_vars

\* NewHeaderCheckHandler
InitHandler ==
    /\ pc = "start"
    /\ proxy \in {[isNil |-> TRUE], [isNil |-> FALSE]}
    /\ callerPolicy \in CallerPolicies
    /\ locals = NoLocals /\ calls = <<>> /\ ret = NotReturned
    /\ BuilderIdle /\ VerifierIdle /\ FetcherIdle

NextHandler ==
    \/ CheckProxy
    \/ GetNetworkConfig
    \/ GetRatingsConfig
    \/ GetEnableEpochsConfig
    \/ CreateCoreComponents
    \/ CreateCryptoComponents
    \/ CreateNodesCoordinator
    \/ NewHeaderSigVerifier
    \/ NewRawHeaderHandler
    \/ NewHeaderVerifier

SpecHandler == InitHandler /\ [][NextHandler]_vars

\* HeaderVerifier
InitVerifier == BuilderIdle /\ HandlerIdle /\ VerifierIdle /\ FetcherIdle

DoFetching ==
    \E failed \in BOOLEAN, kind \in FetchErrors, h \in Headers : Fetching(failed, kind, h) /\ VerifierOnly
DoSelectingCommittee ==
    \E failed \in BOOLEAN, kind \in SelectErrors : SelectingCommittee(failed, kind) /\ VerifierOnly
DoVerifying ==
    \E failed \in BOOLEAN, kind \in VerifyErrors : Verifying(failed, kind) /\ VerifierOnly

NextVerifier ==
    \/ VerifyHeader
    \/ DoFetching
    \/ DoSelectingCommittee
    \/ DoVerifying

SpecVerifier == InitVerifier /\ [][NextVerifier]_vars

\* hitbtc.FetchPrice
InitFetcher == BuilderIdle /\ HandlerIdle /\ VerifierIdle /\ FetcherIdle

DoFetchPrice ==
    \E getErr \in GetErrors \cup {NoErr}, price \in PriceStrings :
        FetchPrice(getErr, price) /\ FetcherOnly

NextFetcher == DoFetchPrice

SpecFetcher == InitFetcher /\ [][NextFetcher]_vars

(***************************************************************************)
(* Properties                                                              *)
(***************************************************************************)
Last(seq) == seq[Len(seq)]
StagePath == <<"Fetching", "SelectingCommittee", "Verifying", "Verified">>
ErrorsOf(s) ==
    IF s = "Fetching" THEN FetchErrors
    ELSE IF s = "SelectingCommittee" THEN SelectErrors
    ELSE IF s = "Verifying" THEN VerifyErrors
    ELSE {}

\* C1: one verification call moves only along Idle -> Fetching ->
\* SelectingCommittee -> Verifying -> {Verified | Rejected}: the stages entered
\* are a prefix of that path, or a non-empty prefix of its first three stages
\* followed by Rejected and nothing else; Verified comes with a valid verdict
\* after all three stages, Rejected with an error kind of the stage it left,
\* and no stage is entered twice.
C1_StateMachine ==
    /\ \/ \E n \in 0..4 : entered = SubSeq(StagePath, 1, n)
       \/ \E n \in 1..3 : entered = Append(SubSeq(StagePath, 1, n), "Rejected")
    /\ stage = (IF entered = <<>> THEN "Idle" ELSE Last(entered))
    /\ stage = "Verified" => result = Valid
    /\ stage = "Rejected" =>
          /\ result.verdict = "invalid"
          /\ result.err \in ErrorsOf(entered[Len(entered) - 1])
    /\ stage \notin {"Verified", "Rejected"} => result = NoResult

C1_Witness ==
    /\ stage = "Rejected"
    /\ entered = <<"Fetching", "SelectingCommittee", "Rejected">>
    /\ result = Invalid("UnknownEpochError")

C4_FetchOnceInOrder ==
    /\ Len(calls) <= Len(CallOrder)
    /\ \A i \in 1..Len(calls) : calls[i].name = CallOrder[i]
    /\ \A i \in 1..Len(calls) :
          calls[i].err # NoErr =>
              /\ i = Len(calls)
              /\ pc = "returned"
              /\ ret = [verifier |-> NilVerifier, err |-> calls[i].err]
    /\ proxy.isNil => calls = <<>>

C4_Witness ==
    /\ pc = "returned"
    /\ Len(calls) = 2
    /\ calls[2] = Failed("GetRatingsConfig", "timeout")
    /\ ret.err = calls[2].err

\* C7: FetchPrice returns price 0 with every error: the getter's own error when
\* the getter fails, the invalid-response-data error when the decoded price
\* string is empty; a non-zero price comes only with a nil error.
C7_ZeroPriceOnError ==
    fetched.called =>
        /\ got # NoErr => fetched = Price(0, got)
        /\ (got = NoErr /\ hpr = <<>>) => fetched = Price(0, errInvalidResponseData)
        /\ fetched.err # NoErr => fetched.price = 0
        /\ fetched.price # 0 => fetched.err = NoErr

C7_Witness ==
    /\ fetched.called
    /\ got = NoErr
    /\ hpr = <<>>
    /\ fetched.err = errInvalidResponseData

ToOps == {"ToDataString", "ToDataBytes", "ToVmValueRequest"}
ArgOps == {"ArgHexString", "ArgAddress", "ArgBigInt", "ArgInt64", "ArgBytes"}

\* C8: no builder operation resets a recorded error to nil, and with an error
\* recorded ToDataString returns the empty string, ToDataBytes nil bytes and
\* ToVmValueRequest a nil request, each with the recorded error.
C8_StickyError ==
    [][/\ err # NoErr => err' # NoErr
       /\ (err # NoErr /\ lastOp'.name \in ToOps) =>
             /\ out'.err = err
             /\ out'.data = <<>>
             /\ out'.req = <<>>
             /\ lastOp'.name \in {"ToDataBytes", "ToVmValueRequest"} => out'.isNil]_vars

C8_Witness ==
    /\ err = ErrNilLogger
    /\ Len(args) >= 1
    /\ lastOp.name = "ToVmValueRequest"
    /\ out = Returned("request", TRUE, <<>>, <<>>, ErrNilLogger)

====
